---------------------------- MODULE Spec2Model ----------------------------
(***************************************************************************)
(* DevCollab backend: the per-file lock state machine, the join gate and   *)
(* the execution queue of backend/routes/workspaces.js, over the Workspace *)
(* aggregate of backend/models/Workspace.js.                               *)
(*                                                                         *)
(* The server is one Node process: a handler runs without interruption     *)
(* from one `await` to the next, so every action below is the code between *)
(* two awaits.  `findById` returns a private copy of the stored document;  *)
(* `save()` sends only the paths the handler modified.  Mongoose guards a  *)
(* $set/$unset below an array element with the document version (__v) it   *)
(* loaded, and a $push increments __v without guarding; a guard that does  *)
(* not match rejects the save with a VersionError.                         *)
(***************************************************************************)
EXTENDS Integers, Sequences, FiniteSets, TLC

(* ------------------------------ bounds -------------------------------- *)
MaxReqs == 3        \* HTTP requests issued in a run
MaxJobs == 3        \* execution jobs accepted in a run
MaxTicks == 1       \* clock ticks in a run (one tick = one timeout period)
MaxSent == 1        \* lock-file / unlock-file messages a session sends in a run

(* ----------------------------- constants ------------------------------ *)
TimeoutMs == 5000   \* spawn option `timeout`
MaxVersions == 10   \* addFileVersion keeps the last 10 versions

None == "none"
NoDoc == [absent |-> TRUE]   \* findById found nothing (null)
NoTime == -1
NoId == 0           \* undefined
NoCode == -99       \* exitCode never assigned (undefined)
NullCode == -1      \* exitCode null: the child was ended by a signal
EnoentCode == -2    \* exit code 'close' reports after a failed spawn

Workspaces == {"w1", "w2"}
NoWs == "w0"
FileIds == {"f1", "f2"}
BadCode == "bad"    \* no workspace has it: an invite code is written as its workspace's id
BadId == "zz"       \* not the 24 hexadecimal digits of an ObjectId
\* the _id a file gets when it is pushed, by the number of the request
CreatedIds == <<"n1", "n2", "n3", "n4", "n5", "n6">>

Sessions == {"s1", "s2"}
\* the user whose browser opened the session
UserOf(s) == IF s = "s1" THEN "u2" ELSE "u3"

FilesOf(w) == IF w = "w1" THEN {"f1"} ELSE {"f2"}
LanguageOf(f) == IF f = "f1" THEN "javascript" ELSE "ruby"

VARIABLES
  db,        \* the Workspace Store: workspace id -> stored document
  now,       \* Date.now()
  reqs,      \* the HTTP requests received so far, each with its handler's position
  events,    \* what io.to(room).emit has published, in order
  queue,     \* executionQueue
  isProcessingQueue,
  jobs,      \* every job pushed so far, with its executeCode run
  loops,     \* the processExecutionQueue calls that got past the guard
  trace,     \* history: the order of dequeues and of first terminal writes
  sockets    \* the Socket.IO sessions: the rooms each is in, and what it asked

vars == <<db, now, reqs, events, queue, isProcessingQueue, jobs, loops,
          trace, sockets>>

(* ------------------------- the Workspace model ------------------------ *)
NewFile(f) ==
  [isLocked |-> FALSE, lockedBy |-> None, lockedAt |-> NoTime,
   name |-> "n0", content |-> "c0", versions |-> << >>,
   language |-> LanguageOf(f)]

NewWorkspace(w) ==
  [v |-> 0,
   owner |-> IF w = "w1" THEN "u1" ELSE "u2",
   members |-> IF w = "w1" THEN <<"u2">> ELSE << >>,
   inviteCode |-> w,
   allowExecution |-> TRUE,
   files |-> [f \in FilesOf(w) |-> NewFile(f)],
   executionResults |-> << >>]

isMember(doc, userId) ==
  \/ \E i \in DOMAIN doc.members : doc.members[i] = userId
  \/ doc.owner = userId

addMember(doc, userId) ==
  IF ~isMember(doc, userId)
  THEN [doc EXCEPT !.members = Append(@, userId)]
  ELSE doc

lockFileOkAnyState(doc, fileId, userId) ==
  fileId \in DOMAIN doc.files

lockFileOkForHolder(doc, fileId, userId) ==
  /\ fileId \in DOMAIN doc.files
  /\ \/ ~doc.files[fileId].isLocked
     \/ doc.files[fileId].lockedBy = userId

lockFileOk(doc, fileId, userId) ==
  fileId \in DOMAIN doc.files /\ ~doc.files[fileId].isLocked

lockFile(doc, fileId, userId, t) ==
  IF lockFileOk(doc, fileId, userId)
  THEN [doc EXCEPT !.files[fileId].isLocked = TRUE,
                   !.files[fileId].lockedBy = userId,
                   !.files[fileId].lockedAt = t]
  ELSE doc

unlockFileOk(doc, fileId, userId) ==
  /\ fileId \in DOMAIN doc.files
  /\ doc.files[fileId].isLocked
  /\ doc.files[fileId].lockedBy = userId

unlockFileFlagOnly(doc, fileId, userId) ==
  IF unlockFileOk(doc, fileId, userId)
  THEN [doc EXCEPT !.files[fileId].isLocked = FALSE]
  ELSE doc

unlockFile(doc, fileId, userId) ==
  IF unlockFileOk(doc, fileId, userId)
  THEN [doc EXCEPT !.files[fileId].isLocked = FALSE,
                   !.files[fileId].lockedBy = None,
                   !.files[fileId].lockedAt = NoTime]
  ELSE doc

addFileVersion(doc, fileId, content, authorId) ==
  IF fileId \in DOMAIN doc.files
  THEN LET unshifted == <<[content |-> content, author |-> authorId]>>
                          \o doc.files[fileId].versions
           kept == IF Len(unshifted) > MaxVersions
                   THEN SubSeq(unshifted, 1, MaxVersions) ELSE unshifted
       IN  [doc EXCEPT !.files[fileId].versions = kept,
                       !.files[fileId].content = content]
  ELSE doc

(* ------------------------------ the store ----------------------------- *)
findById(id) == IF id \in Workspaces THEN db[id] ELSE NoDoc

\* save() of a document whose modified paths are the lock fields of one
\* file: a $set/$unset below files.<i>, guarded by the loaded __v.
VersionMatches(doc, id) == db[id].v = doc.v

SaveLockFields(doc, id, fileId) ==
  [db EXCEPT ![id].files[fileId].isLocked = doc.files[fileId].isLocked,
             ![id].files[fileId].lockedBy = doc.files[fileId].lockedBy,
             ![id].files[fileId].lockedAt = doc.files[fileId].lockedAt]

SaveWholeFile(doc, id, fileId) ==
  [db EXCEPT ![id].files[fileId] = doc.files[fileId], ![id].v = @ + 1]

\* save() after addFileVersion: a $set of files.<i>.content and of the array
\* files.<i>.versions, guarded by the loaded __v, which it increments.
SaveFileFields(doc, id, fileId) ==
  [db EXCEPT ![id].files[fileId].content = doc.files[fileId].content,
             ![id].files[fileId].versions = doc.files[fileId].versions,
             ![id].v = @ + 1]

\* save() after files.push: a $push of the new file, which increments __v
\* unguarded.
SavePushFile(id, fileId, file) ==
  [db EXCEPT ![id].files = [f \in DOMAIN @ \cup {fileId} |->
                              IF f = fileId THEN file ELSE @[f]],
             ![id].v = @ + 1]

\* save() after members.push: a $push, which increments __v unguarded.
SavePushMember(id, userId) ==
  [db EXCEPT ![id].members = Append(@, userId), ![id].v = @ + 1]

(* ---------------------------- HTTP requests --------------------------- *)
\* A request is written down when its handler's load resolves: the code
\* before that await reads nothing of the state.
NoReq == [kind |-> None, user |-> None, ws |-> None, file |-> None,
          inviteCode |-> None, pc |-> "idle", doc |-> NoDoc, resp |-> 0]

\* the sessions that are in a room
InRoom(room) == {s \in DOMAIN sockets : room \in sockets[s].rooms}

EmitNothing(room, name, fileId, userId) == events

\* io.to(room).emit: the event goes to the sessions in the room at that moment
Emit(room, name, fileId, userId) ==
  Append(events, [room |-> room, name |-> name, fileId |-> fileId,
                  userId |-> userId, job |-> 0, status |-> None,
                  to |-> InRoom(room)])

Issued == {r \in DOMAIN reqs : reqs[r].pc # "idle"}
NextReq == Cardinality(Issued) + 1

AnswerPending(kind, u, w, f, c, code) ==
  reqs' = [reqs EXCEPT ![NextReq] =
             [kind |-> kind, user |-> u, ws |-> w, file |-> f, inviteCode |-> c,
              pc |-> "save", doc |-> NoDoc, resp |-> 0]]

\* the handler returns a response at once ...
Answer(kind, u, w, f, c, code) ==
  reqs' = [reqs EXCEPT ![NextReq] =
             [kind |-> kind, user |-> u, ws |-> w, file |-> f, inviteCode |-> c,
              pc |-> "done", doc |-> NoDoc, resp |-> code]]

\* ... or awaits workspace.save() with its modified copy
AwaitSave(kind, u, w, f, c, doc) ==
  reqs' = [reqs EXCEPT ![NextReq] =
             [kind |-> kind, user |-> u, ws |-> w, file |-> f, inviteCode |-> c,
              pc |-> "save", doc |-> doc, resp |-> 0]]

Respond(r, code) ==
  reqs' = [reqs EXCEPT ![r].pc = "done", ![r].resp = code, ![r].doc = NoDoc]

\* new Date() / Date.now() advance; a due kill timer runs before time moves on.
Tick ==
  /\ now < MaxTicks * TimeoutMs
  /\ \A j \in DOMAIN jobs :
       jobs[j].child = "running" => now - jobs[j].spawnedAt < TimeoutMs
  /\ now' = now + TimeoutMs
  /\ UNCHANGED <<sockets, db, reqs, events, queue, isProcessingQueue, jobs, loops, trace>>

\* POST /:id/files/:fileId/lock, from the load to the save.
LockLoad(u, w, f) ==
  /\ NextReq <= MaxReqs
  /\ LET workspace == findById(w)
     IN  IF workspace = NoDoc THEN Answer("lock", u, w, f, None, 404)
         ELSE IF ~isMember(workspace, u) THEN Answer("lock", u, w, f, None, 403)
         ELSE IF ~lockFileOk(workspace, f, u) THEN Answer("lock", u, w, f, None, 423)
         ELSE AwaitSave("lock", u, w, f, None, lockFile(workspace, f, u, now))
  /\ UNCHANGED <<sockets, db, now, events, queue, isProcessingQueue, jobs, loops, trace>>

\* ... the save, the file-locked event and the response.
LockSave(r) ==
  /\ reqs[r].kind = "lock" /\ reqs[r].pc = "save"
  /\ LET q == reqs[r]
     IN  IF VersionMatches(q.doc, q.ws)
         THEN /\ db' = SaveLockFields(q.doc, q.ws, q.file)
              /\ events' = Emit(q.ws, "file-locked", q.file, q.user)
              /\ Respond(r, 200)
         ELSE /\ Respond(r, 500)
              /\ UNCHANGED <<db, events>>
  /\ UNCHANGED <<sockets, now, queue, isProcessingQueue, jobs, loops, trace>>

\* POST /:id/files/:fileId/unlock, from the load to the save.
UnlockLoad(u, w, f) ==
  /\ NextReq <= MaxReqs
  /\ LET workspace == findById(w)
     IN  IF workspace = NoDoc THEN Answer("unlock", u, w, f, None, 404)
         ELSE IF ~isMember(workspace, u) THEN Answer("unlock", u, w, f, None, 403)
         ELSE IF ~unlockFileOk(workspace, f, u) THEN Answer("unlock", u, w, f, None, 400)
         ELSE AwaitSave("unlock", u, w, f, None, unlockFile(workspace, f, u))
  /\ UNCHANGED <<sockets, db, now, events, queue, isProcessingQueue, jobs, loops, trace>>

\* ... the save, the file-unlocked event and the response.
UnlockSave(r) ==
  /\ reqs[r].kind = "unlock" /\ reqs[r].pc = "save"
  /\ LET q == reqs[r]
     IN  IF VersionMatches(q.doc, q.ws)
         THEN /\ db' = SaveLockFields(q.doc, q.ws, q.file)
              /\ events' = Emit(q.ws, "file-unlocked", q.file, q.user)
              /\ Respond(r, 200)
         ELSE /\ Respond(r, 500)
              /\ UNCHANGED <<db, events>>
  /\ UNCHANGED <<sockets, now, queue, isProcessingQueue, jobs, loops, trace>>

\* PUT /:id/files/:fileId with a content and no name, from the load to the
\* save.  A content equal to the file's leaves nothing to write (NoDoc).
UpdateLoad(u, w, f, content) ==
  /\ NextReq <= MaxReqs
  /\ LET workspace == findById(w)
     IN  IF workspace = NoDoc THEN Answer("update", u, w, f, None, 404)
         ELSE IF ~isMember(workspace, u) THEN Answer("update", u, w, f, None, 403)
         ELSE IF f \notin DOMAIN workspace.files
           THEN Answer("update", u, w, f, None, 404)
         ELSE IF /\ workspace.files[f].isLocked
                 /\ workspace.files[f].lockedBy # u
           THEN Answer("update", u, w, f, None, 423)
         ELSE IF content # workspace.files[f].content
           THEN AwaitSave("update", u, w, f, None,
                          addFileVersion(workspace, f, content, u))
         ELSE AwaitSave("update", u, w, f, None, NoDoc)
  /\ UNCHANGED <<sockets, db, now, events, queue, isProcessingQueue, jobs,
                 loops, trace>>

\* ... the save and the response (this route publishes nothing).
UpdateSave(r) ==
  /\ reqs[r].kind = "update" /\ reqs[r].pc = "save"
  /\ LET q == reqs[r]
     IN  IF q.doc = NoDoc
         THEN /\ Respond(r, 200)
              /\ UNCHANGED db
         ELSE IF VersionMatches(q.doc, q.ws)
         THEN /\ db' = SaveFileFields(q.doc, q.ws, q.file)
              /\ Respond(r, 200)
         ELSE /\ Respond(r, 500)
              /\ UNCHANGED db
  /\ UNCHANGED <<sockets, now, events, queue, isProcessingQueue, jobs, loops,
                 trace>>

\* POST /:id/files with a name: the validation, the load, files.push and the
\* first version of a file that has content.
CreateLoad(u, w, content, language) ==
  /\ NextReq <= MaxReqs
  /\ LET fileId == CreatedIds[NextReq]
         workspace == findById(w)
     IN  IF language = None \/ w = BadId
           THEN Answer("create", u, w, fileId, None, 400)
         ELSE IF workspace = NoDoc THEN Answer("create", u, w, fileId, None, 404)
         ELSE IF ~isMember(workspace, u)
           THEN Answer("create", u, w, fileId, None, 403)
         ELSE LET file == [isLocked |-> FALSE, lockedBy |-> None,
                           lockedAt |-> NoTime, name |-> "n1",
                           content |-> content, versions |-> << >>,
                           language |-> language]
                  pushed == [workspace EXCEPT !.files =
                               [f \in DOMAIN @ \cup {fileId} |->
                                  IF f = fileId THEN file ELSE @[f]]]
              IN  AwaitSave("create", u, w, fileId, None,
                            IF content # ""
                            THEN addFileVersion(pushed, fileId, content, u)
                            ELSE pushed)
  /\ UNCHANGED <<sockets, db, now, events, queue, isProcessingQueue, jobs,
                 loops, trace>>

\* ... the save and the response (this route publishes nothing).
CreateSave(r) ==
  /\ reqs[r].kind = "create" /\ reqs[r].pc = "save"
  /\ db' = SavePushFile(reqs[r].ws, reqs[r].file, reqs[r].doc.files[reqs[r].file])
  /\ Respond(r, 201)
  /\ UNCHANGED <<sockets, now, events, queue, isProcessingQueue, jobs, loops,
                 trace>>

\* POST /:id/join: findOne({_id, inviteCode}), then isMember, addMember.
JoinLoad(u, w, c) ==
  /\ NextReq <= MaxReqs
  /\ LET found == findById(w)
         workspace == IF found # NoDoc /\ found.inviteCode = c
                      THEN found ELSE NoDoc
     IN  IF workspace = NoDoc THEN Answer("join", u, w, None, c, 404)
         ELSE IF isMember(workspace, u) THEN Answer("join", u, w, None, c, 400)
         ELSE AwaitSave("join", u, w, None, c, addMember(workspace, u))
  /\ UNCHANGED <<sockets, db, now, events, queue, isProcessingQueue, jobs, loops, trace>>

\* ... the save and the response (this route publishes nothing).
JoinSave(r) ==
  /\ reqs[r].kind = "join" /\ reqs[r].pc = "save"
  /\ db' = SavePushMember(reqs[r].ws, reqs[r].user)
  /\ Respond(r, 200)
  /\ UNCHANGED <<sockets, now, events, queue, isProcessingQueue, jobs, loops, trace>>

(* -------------------------- the execution queue ----------------------- *)
Terminal == {"completed", "error", "timeout"}

NoHandler == [pc |-> "none", v |-> -1, t |-> NoTime]

NewJob(workspaceId, fileId, code, language, userId) ==
  [ws |-> workspaceId, file |-> fileId, code |-> code, language |-> language,
   user |-> userId,
   pc |-> "queued",         \* executeCode's body: queued, find, save1, save2, end
   resolved |-> FALSE,      \* resolve() has been called
   v |-> -1,                \* __v of executeCode's copy of the workspace
   resultId |-> NoId,
   startTime |-> NoTime,
   args |-> None,           \* the code handed to spawn
   child |-> "none",        \* none, failed, errored, running, exited, killed, closed
   spawnedAt |-> NoTime,
   exitCode |-> NoCode,
   close |-> NoHandler,     \* the child.on('close') callback
   error |-> NoHandler,     \* the child.on('error') callback
   nfinal |-> 0]            \* history: terminal writes persisted for the job

NewResult(j, fileId, userId) ==
  [id |-> j, fileId |-> fileId, executedBy |-> userId, status |-> "running",
   stdout |-> "", stderr |-> "", exitCode |-> NoCode, executionTime |-> 0]

Supported == {"javascript", "typescript", "python", "shell"}

\* executionResult._id, read from the object literal that was pushed: the
\* subdocument's generated _id if push wrote it back onto the literal, else
\* undefined.
ResultIds(j) == {j, NoId}

\* executionResults.id(rid) is not null
HasResult(doc, rid) ==
  \E i \in DOMAIN doc.executionResults : doc.executionResults[i].id = rid

ResultOf(doc, rid) ==
  LET i == CHOOSE i \in DOMAIN doc.executionResults :
                    doc.executionResults[i].id = rid
  IN  doc.executionResults[i]

\* what the child wrote by the time it closed
StdoutOf(code) == IF code = 0 THEN "out" ELSE ""
StderrOf(code) == IF code = 1 THEN "err" ELSE ""

CloseStatusFalsy(code) ==
  IF code \in {0, NullCode} THEN "completed" ELSE "error"

CloseStatus(code) == IF code = 0 THEN "completed" ELSE "error"

\* save() after executionResults.push: a $push, which increments __v unguarded.
SavePushResult(id, result) ==
  [db EXCEPT ![id].executionResults = Append(@, result), ![id].v = @ + 1]

\* save() of the fields the 'close' callback assigned, below executionResults.<i>
SaveCloseFields(id, rid, code, t) ==
  [db EXCEPT ![id].executionResults =
     [i \in DOMAIN @ |->
        IF @[i].id = rid
        THEN [@[i] EXCEPT !.stdout = StdoutOf(code), !.stderr = StderrOf(code),
                          !.exitCode = code, !.executionTime = t,
                          !.status = CloseStatus(code)]
        ELSE @[i]]]

\* save() of the fields the 'error' callback or the default branch assigned
SaveErrorFields(id, rid, message, t) ==
  [db EXCEPT ![id].executionResults =
     [i \in DOMAIN @ |->
        IF @[i].id = rid
        THEN [@[i] EXCEPT !.stderr = message, !.executionTime = t,
                          !.status = "error"]
        ELSE @[i]]]

EmitResult(room, fileId, j, status) ==
  Append(events, [room |-> room, name |-> "execution-result",
                  fileId |-> fileId, userId |-> None, job |-> j,
                  status |-> status, to |-> InRoom(room)])

DequeueLast(q) == [job |-> q[Len(q)], rest |-> SubSeq(q, 1, Len(q) - 1)]

\* executionQueue.shift()
Dequeue(q) == [job |-> Head(q), rest |-> Tail(q)]

QueueBusyIgnoringFlag(flag, q) == Len(q) = 0

\* the guard of processExecutionQueue
QueueBusy(flag, q) == flag \/ Len(q) = 0

ActiveLoops == {l \in DOMAIN loops : loops[l].active}

ResolveOnce(j, J, T) ==
  IF J[j].resolved
  THEN /\ jobs' = J
       /\ trace' = T
       /\ UNCHANGED <<queue, isProcessingQueue, loops>>
  ELSE LET l == CHOOSE l \in ActiveLoops : loops[l].job = j
       IN  /\ jobs' = [J EXCEPT ![j].resolved = TRUE]
           /\ loops' = [loops EXCEPT ![l].active = FALSE]
           /\ isProcessingQueue' = FALSE
           /\ trace' = T
           /\ UNCHANGED queue

\* resolve() of job j's promise, with J and T the jobs and the trace as the
\* caller leaves them.  The loop awaiting j resumes in a microtask, before any
\* other callback: it shifts the next job and runs executeCode to its first
\* await, or clears the flag.  A second resolve() does nothing.
Resolve(j, J, T) ==
  IF J[j].resolved
  THEN /\ jobs' = J
       /\ trace' = T
       /\ UNCHANGED <<queue, isProcessingQueue, loops>>
  ELSE LET l == CHOOSE l \in ActiveLoops : loops[l].job = j
           R == [J EXCEPT ![j].resolved = TRUE]
       IN  IF Len(queue) > 0
           THEN LET d == Dequeue(queue)
                IN  /\ jobs' = [R EXCEPT ![d.job].pc = "find"]
                    /\ queue' = d.rest
                    /\ loops' = [loops EXCEPT ![l].job = d.job]
                    /\ trace' = [T EXCEPT !.dequeued = Append(@, d.job)]
                    /\ UNCHANGED isProcessingQueue
           ELSE /\ jobs' = R
                /\ loops' = [loops EXCEPT ![l].active = FALSE]
                /\ isProcessingQueue' = FALSE
                /\ trace' = T
                /\ UNCHANGED queue

FirstTerminal(j) ==
  IF jobs[j].nfinal = 0 THEN [trace EXCEPT !.terminal = Append(@, j)] ELSE trace

\* POST /:id/files/:fileId/execute: the load, the checks, the push, the call
\* of processExecutionQueue and the response.
ExecuteLoad(u, w, f) ==
  /\ NextReq <= MaxReqs
  /\ Len(jobs) < MaxJobs
  /\ LET workspace == findById(w)
     IN  IF workspace = NoDoc THEN
           /\ Answer("execute", u, w, f, None, 404)
           /\ UNCHANGED <<queue, isProcessingQueue, jobs, loops, trace>>
         ELSE IF ~isMember(workspace, u) \/ ~workspace.allowExecution THEN
           /\ Answer("execute", u, w, f, None, 403)
           /\ UNCHANGED <<queue, isProcessingQueue, jobs, loops, trace>>
         ELSE IF f \notin DOMAIN workspace.files THEN
           /\ Answer("execute", u, w, f, None, 404)
           /\ UNCHANGED <<queue, isProcessingQueue, jobs, loops, trace>>
         ELSE
           LET j == Len(jobs) + 1
               file == workspace.files[f]
               pushed == Append(jobs, NewJob(w, f, file.content, file.language, u))
               q1 == Append(queue, j)
           IN  /\ Answer("execute", u, w, f, None, 200)
               /\ IF QueueBusy(isProcessingQueue, q1)
                  THEN /\ queue' = q1
                       /\ jobs' = pushed
                       /\ UNCHANGED <<isProcessingQueue, loops, trace>>
                  ELSE LET d == Dequeue(q1)
                       IN  /\ isProcessingQueue' = TRUE
                           /\ queue' = d.rest
                           /\ jobs' = [pushed EXCEPT ![d.job].pc = "find"]
                           /\ loops' = Append(loops, [job |-> d.job, active |-> TRUE])
                           /\ trace' = [trace EXCEPT !.dequeued = Append(@, d.job)]
  /\ UNCHANGED <<sockets, db, now, events>>

\* executeCode: Workspace.findById resolves.
ExecFind(j) ==
  /\ jobs[j].pc = "find"
  /\ LET workspace == findById(jobs[j].ws)
     IN  IF workspace = NoDoc
         THEN Resolve(j, [jobs EXCEPT ![j].pc = "end"], trace)
         ELSE /\ jobs' = [jobs EXCEPT ![j].pc = "save1", ![j].v = workspace.v]
              /\ UNCHANGED <<queue, isProcessingQueue, loops, trace>>
  /\ UNCHANGED <<sockets, db, now, reqs, events>>

\* executeCode: Workspace.findById rejects (caught: resolve).
ExecFindRejects(j) ==
  /\ jobs[j].pc = "find"
  /\ Resolve(j, [jobs EXCEPT ![j].pc = "end"], trace)
  /\ UNCHANGED <<sockets, db, now, reqs, events>>

\* executeCode: the save of the running record rejects (caught: resolve).
ExecSave1Rejects(j) ==
  /\ jobs[j].pc = "save1"
  /\ Resolve(j, [jobs EXCEPT ![j].pc = "end"], trace)
  /\ UNCHANGED <<sockets, db, now, reqs, events>>

SpawnCodeFromStore(job) == db[job.ws].files[job.file].content

\* args = ['-e', code] (or ['-c', code]): the code of the queue entry
SpawnCode(job) == job.code

\* executeCode: the running record is saved; a supported language is spawned.
ExecSpawn(j) ==
  /\ jobs[j].pc = "save1"
  /\ jobs[j].language \in Supported
  /\ db' = SavePushResult(jobs[j].ws, NewResult(j, jobs[j].file, jobs[j].user))
  /\ \E rid \in ResultIds(j) :
       LET S == [jobs EXCEPT ![j].v = @ + 1, ![j].resultId = rid,
                             ![j].startTime = now, ![j].pc = "end",
                             ![j].args = SpawnCode(jobs[j])]
       IN  \/ /\ jobs' = [S EXCEPT ![j].child = "running", ![j].spawnedAt = now]
              /\ UNCHANGED <<queue, isProcessingQueue, loops, trace>>
           \/ \* the interpreter cannot be started: 'error', then 'close'
              /\ jobs' = [S EXCEPT ![j].child = "failed", ![j].exitCode = EnoentCode]
              /\ UNCHANGED <<queue, isProcessingQueue, loops, trace>>
           \/ \* spawn throws (an argument it refuses): caught, resolve
              Resolve(j, S, trace)
  /\ UNCHANGED <<sockets, now, reqs, events>>

\* executeCode: the running record is saved; the default branch of the switch
\* looks it up, marks it and saves again, or finds nothing and resolves.
ExecUnsupported(j) ==
  /\ jobs[j].pc = "save1"
  /\ jobs[j].language \notin Supported
  /\ db' = SavePushResult(jobs[j].ws, NewResult(j, jobs[j].file, jobs[j].user))
  /\ \E rid \in ResultIds(j) :
       LET S == [jobs EXCEPT ![j].v = @ + 1, ![j].resultId = rid,
                             ![j].startTime = now]
       IN  IF HasResult(db'[jobs[j].ws], rid)
           THEN /\ jobs' = [S EXCEPT ![j].pc = "save2"]
                /\ UNCHANGED <<queue, isProcessingQueue, loops, trace>>
           ELSE Resolve(j, [S EXCEPT ![j].pc = "end"], trace)
  /\ UNCHANGED <<sockets, now, reqs, events>>

\* ... that save, the event and resolve; a rejected save is caught.
ExecSave2(j) ==
  /\ jobs[j].pc = "save2"
  /\ IF db[jobs[j].ws].v = jobs[j].v
     THEN /\ db' = SaveErrorFields(jobs[j].ws, j, "unsupported", 0)
          /\ events' = EmitResult(jobs[j].ws, jobs[j].file, j, "error")
          /\ Resolve(j, [jobs EXCEPT ![j].pc = "end", ![j].nfinal = @ + 1],
                     FirstTerminal(j))
     ELSE /\ Resolve(j, [jobs EXCEPT ![j].pc = "end"], trace)
          /\ UNCHANGED <<db, events>>
  /\ UNCHANGED <<sockets, now, reqs>>

(* ------------------------ the child's lifecycle ----------------------- *)
\* The interpreter exits by itself with an exit code.
ChildExit(j) ==
  /\ jobs[j].child = "running"
  /\ \E code \in {0, 1} :
       jobs' = [jobs EXCEPT ![j].child = "exited", ![j].exitCode = code]
  /\ UNCHANGED <<sockets, db, now, reqs, events, queue, isProcessingQueue, loops, trace>>

\* The spawn option timeout: 5000 ms after the spawn the child is sent SIGKILL.
ChildTimeout(j) ==
  /\ jobs[j].child = "running"
  /\ now - jobs[j].spawnedAt >= TimeoutMs
  /\ jobs' = [jobs EXCEPT ![j].child = "killed", ![j].exitCode = NullCode]
  /\ UNCHANGED <<sockets, db, now, reqs, events, queue, isProcessingQueue, loops, trace>>

\* child.on('error', ...) runs to its first await.
ChildErrorEvent(j) ==
  /\ jobs[j].child = "failed"
  /\ jobs' = [jobs EXCEPT ![j].child = "errored",
                ![j].error = [pc |-> "find", v |-> -1,
                              t |-> now - jobs[j].startTime]]
  /\ UNCHANGED <<sockets, db, now, reqs, events, queue, isProcessingQueue, loops, trace>>

\* child.on('close', ...) runs to its first await.
ChildCloseEvent(j) ==
  /\ jobs[j].child \in {"exited", "killed", "errored"}
  /\ jobs' = [jobs EXCEPT ![j].child = "closed",
                ![j].close = [pc |-> "find", v |-> -1,
                              t |-> now - jobs[j].startTime]]
  /\ UNCHANGED <<sockets, db, now, reqs, events, queue, isProcessingQueue, loops, trace>>

\* 'close' callback: Workspace.findById resolves.
CloseFind(j) ==
  /\ jobs[j].close.pc = "find"
  /\ LET updatedWorkspace == findById(jobs[j].ws)
     IN  IF updatedWorkspace = NoDoc \/ ~HasResult(updatedWorkspace, jobs[j].resultId)
         THEN Resolve(j, [jobs EXCEPT ![j].close.pc = "done"], trace)
         ELSE /\ jobs' = [jobs EXCEPT ![j].close.pc = "save",
                                      ![j].close.v = updatedWorkspace.v]
              /\ UNCHANGED <<queue, isProcessingQueue, loops, trace>>
  /\ UNCHANGED <<sockets, db, now, reqs, events>>

\* 'close' callback: the save, the event and resolve(); a save the version guard
\* rejects ends the callback in an unhandled rejection, before resolve().
CloseSave(j) ==
  /\ jobs[j].close.pc = "save"
  /\ IF db[jobs[j].ws].v = jobs[j].close.v
     THEN /\ db' = SaveCloseFields(jobs[j].ws, j, jobs[j].exitCode, jobs[j].close.t)
          /\ events' = EmitResult(jobs[j].ws, jobs[j].file, j, CloseStatus(jobs[j].exitCode))
          /\ Resolve(j, [jobs EXCEPT ![j].close.pc = "done", ![j].nfinal = @ + 1],
                     FirstTerminal(j))
     ELSE /\ jobs' = [jobs EXCEPT ![j].close.pc = "threw"]
          /\ UNCHANGED <<db, events, queue, isProcessingQueue, loops, trace>>
  /\ UNCHANGED <<sockets, now, reqs>>

\* 'close' callback: the store rejects the findById or the save (the connection
\* is lost): an unhandled rejection, before resolve().
CloseRejects(j) ==
  /\ jobs[j].close.pc \in {"find", "save"}
  /\ jobs' = [jobs EXCEPT ![j].close.pc = "threw"]
  /\ UNCHANGED <<sockets, db, now, reqs, events, queue, isProcessingQueue, loops, trace>>

\* 'error' callback: Workspace.findById resolves.
ErrorFind(j) ==
  /\ jobs[j].error.pc = "find"
  /\ LET updatedWorkspace == findById(jobs[j].ws)
     IN  IF updatedWorkspace = NoDoc \/ ~HasResult(updatedWorkspace, jobs[j].resultId)
         THEN Resolve(j, [jobs EXCEPT ![j].error.pc = "done"], trace)
         ELSE /\ jobs' = [jobs EXCEPT ![j].error.pc = "save",
                                      ![j].error.v = updatedWorkspace.v]
              /\ UNCHANGED <<queue, isProcessingQueue, loops, trace>>
  /\ UNCHANGED <<sockets, db, now, reqs, events>>

\* 'error' callback: the save, the event and resolve(); a save the version guard
\* rejects ends the callback in an unhandled rejection, before resolve().
ErrorSave(j) ==
  /\ jobs[j].error.pc = "save"
  /\ IF db[jobs[j].ws].v = jobs[j].error.v
     THEN /\ db' = SaveErrorFields(jobs[j].ws, j, "spawn", jobs[j].error.t)
          /\ events' = EmitResult(jobs[j].ws, jobs[j].file, j, "error")
          /\ Resolve(j, [jobs EXCEPT ![j].error.pc = "done", ![j].nfinal = @ + 1],
                     FirstTerminal(j))
     ELSE /\ jobs' = [jobs EXCEPT ![j].error.pc = "threw"]
          /\ UNCHANGED <<db, events, queue, isProcessingQueue, loops, trace>>
  /\ UNCHANGED <<sockets, now, reqs>>

\* 'error' callback: the store rejects the findById or the save (the connection
\* is lost): an unhandled rejection, before resolve().
ErrorRejects(j) ==
  /\ jobs[j].error.pc \in {"find", "save"}
  /\ jobs' = [jobs EXCEPT ![j].error.pc = "threw"]
  /\ UNCHANGED <<sockets, db, now, reqs, events, queue, isProcessingQueue, loops, trace>>

(* --------------------------- specifications --------------------------- *)
Init ==
  /\ db = [w \in Workspaces |-> NewWorkspace(w)]
  /\ now = 0
  /\ reqs = [r \in 1..MaxReqs |-> NoReq]
  /\ events = << >>
  /\ queue = << >>
  /\ isProcessingQueue = FALSE
  /\ jobs = << >>
  /\ loops = << >>
  /\ trace = [dequeued |-> << >>, terminal |-> << >>]
  /\ sockets = [s \in Sessions |->
                  [connected |-> TRUE, rooms |-> {}, left |-> {}, sent |-> 0]]

\* <<user, workspace id, file id>> of the lock and unlock requests
LockInputs ==
  {<<"u1", "w1", "f1">>, <<"u2", "w1", "f1">>, <<"u3", "w1", "f1">>,
   <<"u2", "w1", "f2">>, <<"u2", NoWs, "f1">>}

\* <<user, workspace id, invite code>> of the join requests
JoinInputs ==
  {<<"u1", "w1", "w1">>, <<"u2", "w1", "w1">>, <<"u3", "w1", "w1">>,
   <<"u3", "w1", BadCode>>, <<"u3", NoWs, "w1">>}

NextLock ==
  \/ Tick
  \/ \E i \in LockInputs : LockLoad(i[1], i[2], i[3])
  \/ \E r \in 1..MaxReqs : LockSave(r)
  \/ \E i \in LockInputs : UnlockLoad(i[1], i[2], i[3])
  \/ \E r \in 1..MaxReqs : UnlockSave(r)
  \/ \E i \in JoinInputs : JoinLoad(i[1], i[2], i[3])
  \/ \E r \in 1..MaxReqs : JoinSave(r)

\* The lock manager and the join gate, with no execution traffic.
SpecLock == Init /\ [][NextLock]_vars

\* Time that passes while no child runs changes nothing the queue reads.
TickRunning ==
  /\ \E j \in DOMAIN jobs : jobs[j].child = "running"
  /\ Tick

\* <<user, workspace id, file id>> of the execute requests
ExecuteInputs ==
  {<<"u2", "w1", "f1">>, <<"u2", "w2", "f2">>, <<"u3", "w1", "f1">>}

NextExec ==
  \/ TickRunning
  \/ \E i \in ExecuteInputs : ExecuteLoad(i[1], i[2], i[3])
  \/ JoinLoad("u3", "w1", "w1")
  \/ \E r \in 1..MaxReqs : JoinSave(r)
  \/ \E j \in DOMAIN jobs : ExecFind(j)
  \/ \E j \in DOMAIN jobs : ExecFindRejects(j)
  \/ \E j \in DOMAIN jobs : ExecSave1Rejects(j)
  \/ \E j \in DOMAIN jobs : ExecSpawn(j)
  \/ \E j \in DOMAIN jobs : ExecUnsupported(j)
  \/ \E j \in DOMAIN jobs : ExecSave2(j)
  \/ \E j \in DOMAIN jobs : ChildExit(j)
  \/ \E j \in DOMAIN jobs : ChildTimeout(j)
  \/ \E j \in DOMAIN jobs : ChildErrorEvent(j)
  \/ \E j \in DOMAIN jobs : ChildCloseEvent(j)
  \/ \E j \in DOMAIN jobs : CloseFind(j)
  \/ \E j \in DOMAIN jobs : CloseSave(j)
  \/ \E j \in DOMAIN jobs : CloseRejects(j)
  \/ \E j \in DOMAIN jobs : ErrorFind(j)
  \/ \E j \in DOMAIN jobs : ErrorSave(j)
  \/ \E j \in DOMAIN jobs : ErrorRejects(j)

\* The execution queue, with a guest joining workspace w1 meanwhile.
SpecExec == Init /\ [][NextExec]_vars

\* <<user, workspace id, file id, content>> of the file update requests
UpdateInputs ==
  {<<"u1", "w1", "f1", "c1">>, <<"u2", "w1", "f1", "c2">>,
   <<"u2", "w1", "f1", "c0">>, <<"u3", "w1", "f1", "c2">>,
   <<"u2", "w1", "f2", "c2">>, <<"u2", NoWs, "f1", "c2">>}

NextEdit ==
  \/ \E u \in {"u1", "u2"} : LockLoad(u, "w1", "f1")
  \/ \E r \in 1..MaxReqs : LockSave(r)
  \/ \E u \in {"u1", "u2"} : UnlockLoad(u, "w1", "f1")
  \/ \E r \in 1..MaxReqs : UnlockSave(r)
  \/ \E i \in UpdateInputs : UpdateLoad(i[1], i[2], i[3], i[4])
  \/ \E r \in 1..MaxReqs : UpdateSave(r)

\* File updates, with lock traffic on the same file.
SpecEdit == Init /\ [][NextEdit]_vars

\* <<user, workspace id, file id, content>> of the file update requests
SnapUpdateInputs ==
  {<<"u2", "w1", "f1", "c1">>, <<"u2", "w2", "f2", "c1">>}

NextSnap ==
  \/ TickRunning
  \/ \E i \in ExecuteInputs : ExecuteLoad(i[1], i[2], i[3])
  \/ \E i \in SnapUpdateInputs : UpdateLoad(i[1], i[2], i[3], i[4])
  \/ \E r \in 1..MaxReqs : UpdateSave(r)
  \/ \E j \in DOMAIN jobs : ExecFind(j)
  \/ \E j \in DOMAIN jobs : ExecFindRejects(j)
  \/ \E j \in DOMAIN jobs : ExecSave1Rejects(j)
  \/ \E j \in DOMAIN jobs : ExecSpawn(j)
  \/ \E j \in DOMAIN jobs : ExecUnsupported(j)
  \/ \E j \in DOMAIN jobs : ExecSave2(j)
  \/ \E j \in DOMAIN jobs : ChildExit(j)
  \/ \E j \in DOMAIN jobs : ChildTimeout(j)
  \/ \E j \in DOMAIN jobs : ChildErrorEvent(j)
  \/ \E j \in DOMAIN jobs : ChildCloseEvent(j)
  \/ \E j \in DOMAIN jobs : CloseFind(j)
  \/ \E j \in DOMAIN jobs : CloseSave(j)
  \/ \E j \in DOMAIN jobs : CloseRejects(j)
  \/ \E j \in DOMAIN jobs : ErrorFind(j)
  \/ \E j \in DOMAIN jobs : ErrorSave(j)
  \/ \E j \in DOMAIN jobs : ErrorRejects(j)

\* The execution queue, with the files that are run being updated meanwhile.
SpecSnap == Init /\ [][NextSnap]_vars

\* <<user, workspace id, content, language>> of the file creation requests
CreateInputs ==
  {<<"u2", "w1", "c1", "ruby">>, <<"u2", "w1", "", "ruby">>,
   <<"u3", "w1", "c1", "ruby">>, <<"u2", "w1", "c1", None>>,
   <<"u2", BadId, "c1", "ruby">>, <<"u2", NoWs, "c1", "ruby">>}

\* <<user, workspace id, file id>> of the execute requests: a file the
\* workspace starts with, and the file its first request may have created
FrameExecuteInputs ==
  {<<"u2", "w1", "f1">>, <<"u2", "w1", CreatedIds[1]>>}

NextFrame ==
  \/ TickRunning
  \/ LockLoad("u1", "w1", "f1")
  \/ \E r \in 1..MaxReqs : LockSave(r)
  \/ UnlockLoad("u1", "w1", "f1")
  \/ \E r \in 1..MaxReqs : UnlockSave(r)
  \/ UpdateLoad("u2", "w1", "f1", "c1")
  \/ \E r \in 1..MaxReqs : UpdateSave(r)
  \/ JoinLoad("u3", "w1", "w1")
  \/ \E r \in 1..MaxReqs : JoinSave(r)
  \/ \E i \in CreateInputs : CreateLoad(i[1], i[2], i[3], i[4])
  \/ \E r \in 1..MaxReqs : CreateSave(r)
  \/ \E i \in FrameExecuteInputs : ExecuteLoad(i[1], i[2], i[3])
  \/ \E j \in DOMAIN jobs : ExecFind(j)
  \/ \E j \in DOMAIN jobs : ExecFindRejects(j)
  \/ \E j \in DOMAIN jobs : ExecSave1Rejects(j)
  \/ \E j \in DOMAIN jobs : ExecSpawn(j)
  \/ \E j \in DOMAIN jobs : ExecUnsupported(j)
  \/ \E j \in DOMAIN jobs : ExecSave2(j)
  \/ \E j \in DOMAIN jobs : ChildExit(j)
  \/ \E j \in DOMAIN jobs : ChildTimeout(j)
  \/ \E j \in DOMAIN jobs : ChildErrorEvent(j)
  \/ \E j \in DOMAIN jobs : ChildCloseEvent(j)
  \/ \E j \in DOMAIN jobs : CloseFind(j)
  \/ \E j \in DOMAIN jobs : CloseSave(j)
  \/ \E j \in DOMAIN jobs : CloseRejects(j)
  \/ \E j \in DOMAIN jobs : ErrorFind(j)
  \/ \E j \in DOMAIN jobs : ErrorSave(j)
  \/ \E j \in DOMAIN jobs : ErrorRejects(j)

\* Every handler that saves a workspace, on one workspace.
SpecFrame == Init /\ [][NextFrame]_vars

(* --------------------------- the socket server ------------------------ *)
\* socket.on('join-workspace'): the session enters the room and the others in
\* the room are told.
SocketJoin(s, w) ==
  /\ sockets[s].connected
  /\ w \notin sockets[s].rooms
  /\ sockets' = [sockets EXCEPT ![s].rooms = @ \cup {w}, ![s].left = @ \ {w}]
  /\ events' = Append(events, [room |-> w, name |-> "user-joined",
                               fileId |-> None, userId |-> s, job |-> 0,
                               status |-> None, to |-> InRoom(w) \ {s}])
  /\ UNCHANGED <<db, now, reqs, queue, isProcessingQueue, jobs, loops, trace>>

\* The client emits 'leave-workspace'; the server registers no handler for it,
\* so the session stays in the room.
SocketLeave(s, w) ==
  /\ sockets[s].connected
  /\ w \in sockets[s].rooms
  /\ w \notin sockets[s].left
  /\ sockets' = [sockets EXCEPT ![s].left = @ \cup {w}]
  /\ UNCHANGED <<db, now, reqs, events, queue, isProcessingQueue, jobs, loops,
                 trace>>

\* socket.on('disconnect'): Socket.IO has taken the session out of its rooms.
SocketDisconnect(s) ==
  /\ sockets[s].connected
  /\ sockets' = [sockets EXCEPT ![s].connected = FALSE, ![s].rooms = {}]
  /\ UNCHANGED <<db, now, reqs, events, queue, isProcessingQueue, jobs, loops,
                 trace>>

\* socket.on('lock-file'): the message's fields, which the client chooses, are
\* sent on as a file-locked event to the others in the room it names.
SocketLockFile(s, data) ==
  /\ sockets[s].connected
  /\ sockets[s].sent < MaxSent
  /\ sockets' = [sockets EXCEPT ![s].sent = @ + 1]
  /\ events' = Append(events, [room |-> data.workspaceId, name |-> "file-locked",
                               fileId |-> data.fileId, userId |-> data.userId,
                               job |-> 0, status |-> None,
                               to |-> InRoom(data.workspaceId) \ {s}])
  /\ UNCHANGED <<db, now, reqs, queue, isProcessingQueue, jobs, loops, trace>>

\* socket.on('unlock-file'): likewise, as a file-unlocked event.
SocketUnlockFile(s, data) ==
  /\ sockets[s].connected
  /\ sockets[s].sent < MaxSent
  /\ sockets' = [sockets EXCEPT ![s].sent = @ + 1]
  /\ events' = Append(events, [room |-> data.workspaceId,
                               name |-> "file-unlocked",
                               fileId |-> data.fileId, userId |-> data.userId,
                               job |-> 0, status |-> None,
                               to |-> InRoom(data.workspaceId) \ {s}])
  /\ UNCHANGED <<db, now, reqs, queue, isProcessingQueue, jobs, loops, trace>>

NextRoom ==
  \/ \E s \in Sessions : SocketJoin(s, "w1")
  \/ \E s \in Sessions : SocketLeave(s, "w1")
  \/ \E s \in Sessions : SocketDisconnect(s)
  \/ LockLoad("u1", "w1", "f1")
  \/ \E r \in 1..MaxReqs : LockSave(r)
  \/ UnlockLoad("u1", "w1", "f1")
  \/ \E r \in 1..MaxReqs : UnlockSave(r)

\* The rooms of the socket server, with lock traffic on workspace w1.
SpecRoom == Init /\ [][NextRoom]_vars

\* the data of the lock-file and unlock-file messages
RelayInputs ==
  {[workspaceId |-> "w1", fileId |-> "f1", userId |-> "u1"],
   [workspaceId |-> "w1", fileId |-> "f1", userId |-> "u3"]}

NextRelay ==
  \/ \E s \in Sessions : SocketJoin(s, "w1")
  \/ \E s \in Sessions : SocketDisconnect(s)
  \/ \E s \in Sessions : \E data \in RelayInputs : SocketLockFile(s, data)
  \/ \E s \in Sessions : \E data \in RelayInputs : SocketUnlockFile(s, data)
  \/ LockLoad("u1", "w1", "f1")
  \/ \E r \in 1..MaxReqs : LockSave(r)
  \/ UnlockLoad("u1", "w1", "f1")
  \/ \E r \in 1..MaxReqs : UnlockSave(r)

\* The socket server's relay of lock messages, with the lock routes.
SpecRelay == Init /\ [][NextRelay]_vars

(* ------------------------------- claims ------------------------------- *)
LockRequests(w, f) ==
  {r \in Issued : reqs[r].kind = "lock" /\ reqs[r].ws = w /\ reqs[r].file = f}

NoReleaseAsked(w, f) ==
  \A r \in Issued :
    ~(reqs[r].kind = "unlock" /\ reqs[r].ws = w /\ reqs[r].file = f)

\* C1: of the lock requests that different members send for one file that
\* nobody has asked to release (so it was unlocked when the first of them
\* arrived), at most one is answered 200, however the handlers interleave.
C1_OneAcquireWins ==
  \A w \in Workspaces, f \in FileIds :
    NoReleaseAsked(w, f) =>
      \A r1, r2 \in LockRequests(w, f) :
        (reqs[r1].user # reqs[r2].user /\ reqs[r1].resp = 200)
          => reqs[r2].resp # 200

\* request r is answered in this step
Answered(r) == reqs[r].pc # "done" /\ reqs'[r].pc = "done"

\* the file of request q exists, is locked, and q's user is a member
OnLockedFile(q) ==
  /\ q.ws \in Workspaces
  /\ q.file \in DOMAIN db[q.ws].files
  /\ db[q.ws].files[q.file].isLocked
  /\ isMember(db[q.ws], q.user)

\* C5: an unlock request on a locked file is answered 400 and changes nothing
\* if its member is not the holder, and is answered 200 and leaves the file
\* unlocked, with lockedBy and lockedAt cleared, if its member is the holder.
C5_ReleaseAuthorization ==
  [][\A r \in 1..MaxReqs :
       (Answered(r) /\ reqs'[r].kind = "unlock" /\ OnLockedFile(reqs'[r])) =>
         LET q == reqs'[r]
         IN  IF db[q.ws].files[q.file].lockedBy = q.user
             THEN /\ q.resp = 200
                  /\ ~db'[q.ws].files[q.file].isLocked
                  /\ db'[q.ws].files[q.file].lockedBy = None
                  /\ db'[q.ws].files[q.file].lockedAt = NoTime
             ELSE q.resp = 400 /\ db' = db]_vars

\* request r arrives in this step
Arrives(r) == reqs[r].pc = "idle" /\ reqs'[r].pc # "idle"

\* C6: a lock request of a member for a file that another member holds is
\* answered 423 at once: nothing is saved, the store keeps the holder and the
\* lock time, and no event is published.
C6_ConflictLeavesStateUnchanged ==
  [][\A r \in 1..MaxReqs :
       (Arrives(r) /\ reqs'[r].kind = "lock" /\ OnLockedFile(reqs'[r])
          /\ db[reqs'[r].ws].files[reqs'[r].file].lockedBy # reqs'[r].user) =>
         /\ reqs'[r].pc = "done"
         /\ reqs'[r].resp = 423
         /\ db' = db
         /\ events' = events]_vars

\* a member was refused the lock of a file that another member still holds
C6_Witness ==
  \E r \in Issued :
    /\ reqs[r].kind = "lock" /\ reqs[r].resp = 423
    /\ reqs[r].ws = "w1" /\ reqs[r].file = "f1"
    /\ isMember(db["w1"], reqs[r].user)
    /\ db["w1"].files["f1"].isLocked
    /\ db["w1"].files["f1"].lockedBy # reqs[r].user

\* C2: no job's execution result is written with a terminal status twice.
C2_TerminalWrittenOnce ==
  \A j \in DOMAIN jobs : jobs[j].nfinal <= 1

\* C3: jobs are dequeued in the order they were pushed, a job's executeCode
\* starts only after the promise of every earlier job has resolved, and the
\* first terminal results appear in submission order.
C3_Fifo ==
  /\ \A i \in DOMAIN trace.dequeued : trace.dequeued[i] = i
  /\ \A j \in DOMAIN jobs :
       jobs[j].pc # "queued" => \A i \in 1..(j - 1) : jobs[i].resolved
  /\ \A i, k \in DOMAIN trace.terminal :
       i < k => trace.terminal[i] < trace.terminal[k]

\* three jobs of two workspaces were run and two of them have a terminal result
C3_Witness ==
  /\ Len(trace.dequeued) = 3
  /\ Len(trace.terminal) >= 2
  /\ jobs[1].ws # jobs[2].ws

ChildAlive(j) == jobs[j].child \in {"running", "killed"}

\* C4: at most one processExecutionQueue loop is active and at most one
\* interpreter process is alive.
C4_SingleWorker ==
  /\ Cardinality(ActiveLoops) <= 1
  /\ Cardinality({j \in DOMAIN jobs : ChildAlive(j)}) <= 1

\* two more jobs were accepted while a job's interpreter is running
C4_Witness ==
  /\ isProcessingQueue
  /\ Len(queue) = 2
  /\ \E j \in DOMAIN jobs : jobs[j].child = "running"

\* something of job j's run is still to happen
Pending(j) ==
  \/ jobs[j].pc \in {"find", "save1", "save2"}
  \/ jobs[j].child \in {"failed", "errored", "running", "exited", "killed"}
  \/ jobs[j].close.pc \in {"find", "save"}
  \/ jobs[j].error.pc \in {"find", "save"}

\* C7: while jobs wait in the queue behind a job that has not resolved, some
\* step of that job is still to come: a failure in processing it never leaves
\* the flag set with nothing left to clear it.
C7_FailureIsolation ==
  \A l \in ActiveLoops :
    (Len(queue) > 0 /\ ~jobs[loops[l].job].resolved) => Pending(loops[l].job)

\* the child of job j has closed and its callbacks have run to their end
Settled(j) ==
  /\ jobs[j].child = "closed"
  /\ jobs[j].close.pc \in {"done", "threw"}
  /\ jobs[j].error.pc \in {"none", "done", "threw"}

\* C8: once a job's child has closed and its callbacks have ended, the
\* running record that was persisted for the job has a terminal status.
C8_SettledJobFinalized ==
  \A j \in DOMAIN jobs :
    Settled(j) =>
      /\ HasResult(db[jobs[j].ws], j)
      /\ ResultOf(db[jobs[j].ws], j).status \in Terminal

Rank(status) ==
  CASE status = "pending" -> 0
    [] status = "running" -> 1
    [] OTHER -> 2

C10_TimeoutStatus ==
  \A j \in DOMAIN jobs :
    (jobs[j].exitCode = NullCode /\ jobs[j].close.pc = "done") =>
      /\ HasResult(db[jobs[j].ws], j)
      /\ ResultOf(db[jobs[j].ws], j).status = "timeout"

\* C11: a job whose child was killed by the timeout, and whose 'close'
\* callback has ended, has a terminal result, has no child alive, and has
\* released the worker.
C11_TimedOutJobEnds ==
  \A j \in DOMAIN jobs :
    (jobs[j].exitCode = NullCode /\ jobs[j].child = "closed"
       /\ jobs[j].close.pc \in {"done", "threw"}) =>
      /\ ~ChildAlive(j)
      /\ jobs[j].resolved
      /\ HasResult(db[jobs[j].ws], j)
      /\ ResultOf(db[jobs[j].ws], j).status \in Terminal

\* the execution-result events published for job j
EventsOf(j) ==
  {i \in DOMAIN events :
     events[i].name = "execution-result" /\ events[i].job = j}

\* C12: a job of an unsupported language whose running record was saved and
\* whose executeCode has ended never had a child, and its result has status
\* error, the unsupported-language message in stderr, and an execution-result
\* event in the room of its workspace.
C12_UnsupportedShortCircuit ==
  \A j \in DOMAIN jobs :
    (jobs[j].language \notin Supported /\ jobs[j].pc = "end"
       /\ HasResult(db[jobs[j].ws], j)) =>
      /\ jobs[j].child = "none"
      /\ ResultOf(db[jobs[j].ws], j).status = "error"
      /\ ResultOf(db[jobs[j].ws], j).stderr = "unsupported"
      /\ \E i \in EventsOf(j) : events[i].room = jobs[j].ws

NewEvents == (Len(events) + 1)..Len(events')

\* C17: an event published to a room is not delivered to a session that has
\* sent leave-workspace for that room and has not joined it again.
C17_LeaveStopsDelivery ==
  [][\A i \in NewEvents : \A s \in events'[i].to :
       events'[i].room \notin sockets[s].left]_vars

\* C18: a session is in a workspace's room only if its user is a member or the
\* owner of the workspace, and no event of a workspace's room was delivered to
\* a session whose user is neither.
C18_RoomAccessAuthorized ==
  /\ \A s \in Sessions : \A w \in sockets[s].rooms : isMember(db[w], UserOf(s))
  /\ \A i \in DOMAIN events : \A s \in events[i].to :
       isMember(db[events[i].room], UserOf(s))

\* what an update of a file may change
Editable(file) ==
  [name |-> file.name, content |-> file.content, versions |-> file.versions]

\* C13: a step that answers the file-update request of a member other than
\* the one who holds the file's lock leaves the file's name, content and
\* version history as they were.
C13_NoEditByNonHolder ==
  [][\A r \in 1..MaxReqs :
       (Answered(r) /\ reqs'[r].kind = "update" /\ OnLockedFile(reqs'[r])
          /\ db[reqs'[r].ws].files[reqs'[r].file].lockedBy # reqs'[r].user) =>
         Editable(db'[reqs'[r].ws].files[reqs'[r].file])
           = Editable(db[reqs'[r].ws].files[reqs'[r].file])]_vars

\* request r is a lock or unlock request answered 200 in this step
Transition(r) ==
  /\ Answered(r)
  /\ reqs'[r].kind \in {"lock", "unlock"}
  /\ reqs'[r].resp = 200

\* C14: the step that answers a lock or unlock request with 200 publishes
\* exactly one event, file-locked or file-unlocked, to the room of the
\* request's workspace, with the file id and the requesting member's id, and
\* the store holds the new lock state in that same step.
C14_LockTransitionsBroadcast ==
  [][\A r \in 1..MaxReqs :
       Transition(r) =>
         LET q == reqs'[r]
             e == events'[Len(events')]
         IN  /\ Len(events') = Len(events) + 1
             /\ SubSeq(events', 1, Len(events)) = events
             /\ e.name = IF q.kind = "lock" THEN "file-locked"
                                            ELSE "file-unlocked"
             /\ e.room = q.ws /\ e.to = InRoom(q.ws)
             /\ e.fileId = q.file /\ e.userId = q.user
             /\ db'[q.ws].files[q.file].isLocked = (q.kind = "lock")
             /\ q.kind = "lock" => db'[q.ws].files[q.file].lockedBy = q.user]_vars

\* a lock and then an unlock succeeded and both were published
C14_Witness ==
  \E i, k \in DOMAIN events :
    /\ i < k
    /\ events[i].name = "file-locked" /\ events[k].name = "file-unlocked"
    /\ \E r \in Issued : reqs[r].kind = "unlock" /\ reqs[r].resp = 200

\* C16: an execute request of a member for an existing file is answered 200 in
\* the step in which its handler loads the workspace, whatever the queue holds
\* and whether or not the worker is busy, and an answer given is never changed
\* by what happens to the job afterwards.
C16_SubmitFireAndForget ==
  [][/\ \A r \in 1..MaxReqs :
          (Arrives(r) /\ reqs'[r].kind = "execute"
             /\ reqs'[r].ws \in Workspaces
             /\ isMember(db[reqs'[r].ws], reqs'[r].user)
             /\ reqs'[r].file \in DOMAIN db[reqs'[r].ws].files) =>
            reqs'[r].pc = "done" /\ reqs'[r].resp = 200
     /\ \A r \in 1..MaxReqs :
          (reqs[r].kind = "execute" /\ reqs[r].pc = "done") =>
            reqs'[r] = reqs[r]]_vars

\* every request was a submit and was acknowledged, although the worker is
\* stuck on a job whose 'close' callback threw, with a job waiting in the queue
C16_Witness ==
  /\ isProcessingQueue
  /\ Len(queue) >= 1
  /\ \E j \in DOMAIN jobs : jobs[j].close.pc = "threw" /\ ~jobs[j].resolved
  /\ \A r \in 1..MaxReqs : reqs[r].kind = "execute" /\ reqs[r].resp = 200

\* C19: a workspace's members list holds no user id twice and does not hold
\* the owner.
C19_MemberUniqueness ==
  \A w \in Workspaces :
    /\ \A i, k \in DOMAIN db[w].members :
         i # k => db[w].members[i] # db[w].members[k]
    /\ \A i \in DOMAIN db[w].members : db[w].members[i] # db[w].owner

\* C20: a join request is answered 404 if the workspace does not exist or its
\* invite code is not the one supplied, and 400 if the caller is a member or
\* the owner, and the members list then stays as it was; a join request is
\* answered 200 only if the workspace has the invite code supplied and the
\* caller is neither a member nor the owner, and the caller is then appended
\* to the members list.
C20_JoinGateOutcomes ==
  [][\A r \in 1..MaxReqs :
       (Answered(r) /\ reqs'[r].kind = "join") =>
         LET q == reqs'[r]
             exists == q.ws \in Workspaces
             valid == exists /\ db[q.ws].inviteCode = q.inviteCode
         IN  /\ ~valid => q.resp = 404 /\ db' = db
             /\ (valid /\ isMember(db[q.ws], q.user)) =>
                  q.resp = 400 /\ db' = db
             /\ (valid /\ ~isMember(db[q.ws], q.user)) =>
                  /\ q.resp = 200
                  /\ db'[q.ws].members = Append(db[q.ws].members, q.user)]_vars

\* C21: the step that answers a join request with 200 (the member was added
\* and saved) publishes a collaborator-joined event, with the new member's
\* user id, to the room of that workspace.
C21_JoinBroadcast ==
  [][\A r \in 1..MaxReqs :
       (Answered(r) /\ reqs'[r].kind = "join" /\ reqs'[r].resp = 200) =>
         \E i \in NewEvents :
           /\ events'[i].name = "collaborator-joined"
           /\ events'[i].room = reqs'[r].ws
           /\ events'[i].userId = reqs'[r].user]_vars

\* the lock request r of a member for a file of the workspace arrives in this
\* step
LockArrives(r) ==
  /\ Arrives(r)
  /\ reqs'[r].kind = "lock"
  /\ reqs'[r].ws \in Workspaces
  /\ isMember(db[reqs'[r].ws], reqs'[r].user)
  /\ reqs'[r].file \in DOMAIN db[reqs'[r].ws].files

\* C22 as stated: a lock request of a member for an existing file is refused
\* with 423 only when another member holds the file; when the file is
\* unlocked or held by the caller it is not refused.
C22_AcquireFailsOnlyAgainstOther ==
  [][\A r \in 1..MaxReqs :
       LockArrives(r) =>
         LET q == reqs'[r]
             file == db[q.ws].files[q.file]
         IN  IF file.isLocked /\ file.lockedBy # q.user
             THEN q.pc = "done" /\ q.resp = 423
             ELSE q.resp # 423]_vars

\* C22, amended: a lock request of a member for an existing file is refused
\* with 423 exactly when the file is locked, by anyone, the caller included,
\* when the handler loads the workspace; otherwise the handler saves the
\* lock for the caller, and is answered 200, or 500 when the save is rejected.
C22_AcquireFailsWhenLocked ==
  [][\A r \in 1..MaxReqs :
       /\ LockArrives(r) =>
            LET q == reqs'[r]
                file == db[q.ws].files[q.file]
            IN  IF file.isLocked
                THEN q.pc = "done" /\ q.resp = 423 /\ db' = db
                ELSE /\ q.pc = "save"
                     /\ q.doc.files[q.file].isLocked
                     /\ q.doc.files[q.file].lockedBy = q.user
       /\ (Answered(r) /\ reqs[r].kind = "lock" /\ reqs[r].pc = "save") =>
            reqs'[r].resp \in {200, 500}]_vars

\* the holder of a file asked for its lock again and was refused: the only
\* two requests are a lock answered 200 and then the same member's lock of
\* the same file, answered 423
C22_Witness ==
  /\ Cardinality(Issued) = 2
  /\ reqs[1].kind = "lock" /\ reqs[1].resp = 200
  /\ reqs[2].kind = "lock" /\ reqs[2].resp = 423
  /\ reqs[2].user = reqs[1].user
  /\ reqs[2].ws = reqs[1].ws /\ reqs[2].file = reqs[1].file
  /\ db[reqs[1].ws].files[reqs[1].file].lockedBy = reqs[1].user

\* C23: a lock request is answered 404 when its member asks for a file id the
\* workspace does not have, 403 when its user is not a member of the
\* workspace, and 423 when another member holds the file; in each of these
\* cases it is answered at once and the store is left as it was.
C23_AcquireFailureKinds ==
  [][\A r \in 1..MaxReqs :
       (Arrives(r) /\ reqs'[r].kind = "lock" /\ reqs'[r].ws \in Workspaces) =>
         LET q == reqs'[r]
             workspace == db[q.ws]
             member == isMember(workspace, q.user)
             exists == q.file \in DOMAIN workspace.files
         IN  /\ ~member => q.pc = "done" /\ q.resp = 403 /\ db' = db
             /\ (member /\ ~exists) => q.pc = "done" /\ q.resp = 404 /\ db' = db
             /\ (member /\ exists /\ workspace.files[q.file].isLocked
                   /\ workspace.files[q.file].lockedBy # q.user) =>
                  q.pc = "done" /\ q.resp = 423 /\ db' = db]_vars

\* the lock descriptor of a stored file
Descriptor(file) ==
  [isLocked |-> file.isLocked, lockedBy |-> file.lockedBy,
   lockedAt |-> file.lockedAt]

\* C24: a file that is locked keeps its holder and its lock time in every
\* step, whether time passes, a session leaves or disconnects, or any request
\* is handled, except the step that answers 200 to an unlock request of the
\* holder for that file.
C24_NoAutomaticRelease ==
  [][\A w \in Workspaces : \A f \in DOMAIN db[w].files :
       (/\ db[w].files[f].isLocked
        /\ Descriptor(db'[w].files[f]) # Descriptor(db[w].files[f])) =>
         \E r \in 1..MaxReqs :
           /\ Answered(r)
           /\ reqs'[r].kind = "unlock" /\ reqs'[r].resp = 200
           /\ reqs'[r].ws = w /\ reqs'[r].file = f
           /\ reqs'[r].user = db[w].files[f].lockedBy]_vars

\* the stored execution results of all workspaces
StoredResults ==
  UNION {{db[w].executionResults[i] : i \in DOMAIN db[w].executionResults} :
           w \in Workspaces}

C26_CodeSnapshot ==
  [][\A j \in DOMAIN jobs' :
       IF j \in DOMAIN jobs
       THEN /\ jobs'[j].code = jobs[j].code
            /\ jobs'[j].language = jobs[j].language
            /\ jobs'[j].args # jobs[j].args =>
                 jobs[j].args = None /\ jobs'[j].args = jobs[j].code
       ELSE LET file == db[jobs'[j].ws].files[jobs'[j].file]
            IN  /\ jobs'[j].code = file.content
                /\ jobs'[j].language = file.language
                /\ jobs'[j].args = None]_vars

\* a job that waited behind another one was spawned with the content its
\* file had when it was accepted, although an update of the file was saved
\* before it was dequeued
C26_Witness ==
  \E j \in DOMAIN jobs :
    /\ j > 1
    /\ jobs[j].args = "c0"
    /\ db[jobs[j].ws].files[jobs[j].file].content = "c1"
    /\ \E r \in Issued : reqs[r].kind = "update" /\ reqs[r].resp = 200

\* C27: every file-locked or file-unlocked event that is delivered to a
\* session is published in the step that answers 200 to a lock (respectively
\* unlock) request for that file of that workspace by the user the event
\* names, and the store holds the new lock state in that step.
C27_LockEventsReflectTransitions ==
  [][\A i \in NewEvents :
       (/\ events'[i].name \in {"file-locked", "file-unlocked"}
        /\ events'[i].to # {}) =>
         \E r \in 1..MaxReqs :
           /\ Answered(r) /\ reqs'[r].resp = 200
           /\ reqs'[r].kind = IF events'[i].name = "file-locked"
                              THEN "lock" ELSE "unlock"
           /\ reqs'[r].ws = events'[i].room
           /\ reqs'[r].file = events'[i].fileId
           /\ reqs'[r].user = events'[i].userId
           /\ db'[reqs'[r].ws].files[reqs'[r].file].isLocked
                = (reqs'[r].kind = "lock")]_vars

\* C28: a step changes the lock descriptor of a stored file only when it
\* answers 200 to a lock or unlock request for that file; the saves of the
\* file creation, file update and join routes and of the execution worker
\* leave every descriptor as the store holds it, also when they save a copy
\* loaded before a lock or unlock was saved.
C28_OnlyAcquireReleaseChangeLock ==
  [][\A w \in Workspaces : \A f \in DOMAIN db[w].files :
       /\ f \in DOMAIN db'[w].files
       /\ Descriptor(db'[w].files[f]) # Descriptor(db[w].files[f]) =>
            \E r \in 1..MaxReqs :
              /\ Answered(r)
              /\ reqs'[r].kind \in {"lock", "unlock"} /\ reqs'[r].resp = 200
              /\ reqs'[r].ws = w /\ reqs'[r].file = f]_vars

\* an update by another member, loaded after the holder's lock request was
\* loaded and before it was saved, was itself saved afterwards, and the file
\* is still locked by the holder
C28_Witness ==
  \E rl, ru \in Issued :
    /\ rl < ru
    /\ reqs[rl].kind = "lock" /\ reqs[rl].resp = 200
    /\ reqs[ru].kind = "update" /\ reqs[ru].resp = 200
    /\ reqs[ru].ws = reqs[rl].ws /\ reqs[ru].file = reqs[rl].file
    /\ reqs[ru].user # reqs[rl].user
    /\ db[reqs[rl].ws].files[reqs[rl].file].content = "c1"
    /\ db[reqs[rl].ws].files[reqs[rl].file].isLocked
    /\ db[reqs[rl].ws].files[reqs[rl].file].lockedBy = reqs[rl].user

\* job j is in the execution queue
Queued(j) == \E i \in DOMAIN queue : queue[i] = j

\* C29: between handler steps (an execute handler pushes and calls
\* processExecutionQueue in one step), the queue is empty whenever the
\* processing flag is false, and a job that was pushed is either still in the
\* queue, with a worker loop active, or was dequeued and handed to
\* executeCode.
C29_NoStrandedJob ==
  /\ ~isProcessingQueue => Len(queue) = 0
  /\ isProcessingQueue <=> ActiveLoops # {}
  /\ \A j \in DOMAIN jobs : Queued(j) <=> jobs[j].pc = "queued"
  /\ \A j \in DOMAIN jobs :
       jobs[j].pc # "queued" => \E i \in DOMAIN trace.dequeued :
                                  trace.dequeued[i] = j

\* a second job was pushed while the only worker loop there ever was ran the
\* first; that loop dequeued and ran it, finished it and cleared the flag
C29_Witness ==
  /\ Len(jobs) = 2
  /\ Len(loops) = 1
  /\ ~isProcessingQueue /\ Len(queue) = 0
  /\ jobs[2].resolved
  /\ trace.dequeued = <<1, 2>>

\* C30: every stored file is either unlocked with no holder and no lock time,
\* or locked with a holder and a lock time, and the holder of a locked file
\* is a member or the owner of its workspace.
C30_LockDescriptorConsistency ==
  \A w \in Workspaces : \A f \in DOMAIN db[w].files :
    LET file == db[w].files[f]
    IN  /\ file.isLocked <=> file.lockedBy # None
        /\ file.lockedAt # NoTime <=> file.lockedBy # None
        /\ file.isLocked => isMember(db[w], file.lockedBy)

\* a file is locked by a user who was no member at first and joined the
\* workspace
C30_Witness ==
  \E w \in Workspaces : \E f \in DOMAIN db[w].files :
    /\ db[w].files[f].isLocked
    /\ db[w].files[f].lockedAt # NoTime
    /\ ~isMember(NewWorkspace(w), db[w].files[f].lockedBy)
    /\ \E r \in Issued : /\ reqs[r].kind = "join" /\ reqs[r].resp = 200
                         /\ reqs[r].ws = w
                         /\ reqs[r].user = db[w].files[f].lockedBy

=============================================================================
